---- MODULE Spec2Model ----
(***************************************************************************)
(* Model of the stasher-worker secret coordinator: the StasherDO Durable   *)
(* Object (create / consume / delete requests and the alarm callback),     *)
(* its key-value storage and its single alarm, driven by callers whose     *)
(* requests are in flight concurrently and by a clock; and the two         *)
(* versions of the worker that keep the payload in KV (KV only, and KV     *)
(* behind the coordinator).                                                *)
(***************************************************************************)
EXTENDS Integers, Sequences, FiniteSets, TLC

VARIABLES
    nowMs,        \* Date.now() of the coordinator, in milliseconds
    storage,      \* storage[id]: the Durable Object's key-value storage
    alarm,        \* alarm[id]: the set of armed alarm times (ms), empty or a singleton
    kv,           \* kv[id]: the entry of id in the KV namespace (KV versions of the worker)
    calls,        \* requests waiting at a coordinator's gate, and their answers
    ncalls,       \* number of requests handled so far
    removed,      \* removed[id]: a stored payload of id has been removed at some point
    created,      \* created[id]: number of create requests answered "created"
    origin,       \* origin[id]: the latest create that stored something under id
    last          \* the latest request handled, its answer and the state around it

vars == <<nowMs, storage, alarm, kv, calls, ncalls, removed, created, origin, last>>

----------------------------------------------------------------------------
(* Bounds of the model *)

\* requests handled in one run
MaxCalls == 3

\* concurrent requests in a race
MaxRacers == 3

Ids == {"id1"}

Payloads == {"p1", "p2"}

\* the instants the clock visits (ms); the first is 1000 s and 500 ms
Instants == {1000500, 1299999, 1300000, 1900000, 1901000}

\* Date.now() at start
StartMs == CHOOSE t \in Instants : \A u \in Instants : t <= u

\* the timestamps (seconds) a caller may send with create
TimestampValues == {699, 700, 1300, 1301}

----------------------------------------------------------------------------
(* Program constants *)

maxSkew == 300

expiryMsOffset == 600000

MsPerSecond == 1000

\* expirationTtl of a KV entry, in seconds
MAX_TTL == 600

----------------------------------------------------------------------------
(* Durable Object storage: a map from keys to values *)

EmptyStorage == [k \in {} |-> 0]

Has(s, k) == k \in DOMAIN s

Put(s, k, v) == [x \in (DOMAIN s) \cup {k} |-> IF x = k THEN v ELSE s[x]]

Delete(s, k) == [x \in (DOMAIN s) \ {k} |-> s[x]]

\* JavaScript truthiness of storage.get(k): undefined and 0 are falsy
TruthyNumber(s, k) == Has(s, k) /\ s[k] # 0

\* a stored payload is an object, truthy whenever present
TruthyObject(s, k) == Has(s, k)

\* storage.deleteAll(): whether it also removes the alarm depends on the runtime
DeleteAllAlarm(al, alarmSurvives) == IF alarmSurvives THEN al ELSE {}

----------------------------------------------------------------------------
(* The KV namespace. An entry holds at most one value, which expires       *)
(* expirationTtl after its put. KV is eventually consistent: after a write *)
(* a get may still be served what the key held before, until the write has *)
(* reached every location. What a get returns is a set: empty for null.    *)

\* a key of the KV namespace that holds nothing
NoEntry == [value |-> {}, expires |-> 0, stale |-> {}]

\* what the key holds at time now
Live(e, now) == IF now < e.expires THEN e.value ELSE {}

\* STASHED_KV.put(key, v, { expirationTtl: MAX_TTL })
KvPut(e, v, now) ==
    [value |-> {v}, expires |-> now + MAX_TTL * MsPerSecond,
     stale |-> (e.stale \cup {Live(e, now)}) \ {{v}}]

\* STASHED_KV.delete(key)
KvDelete(e, now) ==
    [value |-> {}, expires |-> 0, stale |-> (e.stale \cup {Live(e, now)}) \ {{}}]

\* STASHED_KV.get(key): the results a get may return at time now
KvGet(e, now) == {Live(e, now)} \cup e.stale

\* every location has caught up with the latest write
KvSettled(e) == [e EXCEPT !.stale = {}]

----------------------------------------------------------------------------
(* Responses and handler results *)

Resp(status, error, body) == [status |-> status, error |-> error, body |-> body]

NoResp == Resp(0, "", "")

\* the handler returned a response
Result(s, al, resp) == [storage |-> s, alarm |-> al, resp |-> resp, threw |-> FALSE]

\* a storage call rejected: the handler throws, earlier writes stay
Threw(s, al) == [storage |-> s, alarm |-> al, resp |-> NoResp, threw |-> TRUE]

----------------------------------------------------------------------------
(* StasherDO.fetch: the handlers, run inside blockConcurrencyWhile.        *)
(* fail names the storage call that rejects during this run ("none": no    *)
(* call rejects); the calls made before it have taken effect.              *)

\* an expiry instant without the lifetime: the secret expires at its timestamp
ExpiryMsWithoutLifetime(createdAt) == createdAt * MsPerSecond

\* the expiry instant of a stored created_at (seconds), in ms
ExpiryMs(createdAt) == createdAt * MsPerSecond + expiryMsOffset

\* an expiry check that lets a request through at the deadline itself
ReactiveShortCircuitsLate(s, now) ==
    \/ ~TruthyNumber(s, "created_at")
    \/ now > ExpiryMs(s["created_at"])

\* Phase 1 of the non-create requests: TRUE when the request is answered here
ReactiveShortCircuits(s, now) ==
    \/ ~TruthyNumber(s, "created_at")
    \/ now >= ExpiryMs(s["created_at"])

\* an expiry answer that leaves the expired data stored
ReactiveExpiryWithoutWipe(s, al, now, fail, alarmSurvives) ==
    IF ~TruthyNumber(s, "created_at")
    THEN Result(s, al, Resp(410, "Gone", ""))
    ELSE Result(s, al, Resp(410, "Expired", ""))

\* an expiry answer that removes created_at and leaves the payload stored
ReactiveExpiryKeepsPayload(s, al, now, fail, alarmSurvives) ==
    IF ~TruthyNumber(s, "created_at")
    THEN Result(s, al, Resp(410, "Gone", ""))
    ELSE Result(Delete(s, "created_at"), al, Resp(410, "Expired", ""))

ReactiveExpiry(s, al, now, fail, alarmSurvives) ==
    IF ~TruthyNumber(s, "created_at")
    THEN Result(s, al, Resp(410, "Gone", ""))
    ELSE IF fail = "deleteAll"
         THEN Threw(s, al)
         ELSE Result(EmptyStorage, DeleteAllAlarm(al, alarmSurvives),
                     Resp(410, "Expired", ""))

\* a timestamp check that rejects the two ends of the window
InvalidTimestampStrict(timestamp, now) ==
    LET nowS == now \div MsPerSecond IN
    \/ timestamp \notin Int
    \/ timestamp <= (nowS - maxSkew)
    \/ timestamp >= (nowS + maxSkew)

\* a timestamp check without the upper end of the window
InvalidTimestampPastOnly(timestamp, now) ==
    LET nowS == now \div MsPerSecond IN
    \/ timestamp \notin Int
    \/ timestamp < (nowS - maxSkew)

\* the timestamp check of /create
InvalidTimestamp(timestamp, now) ==
    LET nowS == now \div MsPerSecond IN
    \/ timestamp \notin Int
    \/ timestamp < (nowS - maxSkew)
    \/ timestamp > (nowS + maxSkew)

\* a create whose replay guard is missing: it overwrites what is stored
CreateWithoutGuard(timestamp, payload, s, al, now, fail) ==
    IF InvalidTimestamp(timestamp, now)
    THEN Result(s, al, Resp(400, "Invalid timestamp", ""))
    ELSE Result(Put(Put(s, "created_at", timestamp), "payload", payload),
                {ExpiryMs(timestamp)}, Resp(200, "", "created"))

\* a create whose replay guard comes after the writes
CreateGuardAfterPut(timestamp, payload, s, al, now, fail) ==
    IF InvalidTimestamp(timestamp, now)
    THEN Result(s, al, Resp(400, "Invalid timestamp", ""))
    ELSE LET s2 == Put(Put(s, "created_at", timestamp), "payload", payload) IN
         IF TruthyNumber(s, "created_at")
         THEN Result(s2, al, Resp(409, "Already created", ""))
         ELSE Result(s2, {ExpiryMs(timestamp)}, Resp(200, "", "created"))

\* a create that runs the reactive expiry check: an expired secret is wiped
\* and replaced
CreateWithExpiryCheck(timestamp, payload, s, al, now, fail) ==
    IF InvalidTimestamp(timestamp, now)
    THEN Result(s, al, Resp(400, "Invalid timestamp", ""))
    ELSE IF TruthyNumber(s, "created_at") /\ now < ExpiryMs(s["created_at"])
    THEN Result(s, al, Resp(409, "Already created", ""))
    ELSE Result(Put(Put(EmptyStorage, "created_at", timestamp), "payload", payload),
                {ExpiryMs(timestamp)}, Resp(200, "", "created"))

\* a create whose replay guard comes before the timestamp check
CreateGuardFirst(timestamp, payload, s, al, now, fail) ==
    IF TruthyNumber(s, "created_at")
    THEN Result(s, al, Resp(409, "Already created", ""))
    ELSE IF InvalidTimestamp(timestamp, now)
    THEN Result(s, al, Resp(400, "Invalid timestamp", ""))
    ELSE Result(Put(Put(s, "created_at", timestamp), "payload", payload),
                {ExpiryMs(timestamp)}, Resp(200, "", "created"))

Create(timestamp, payload, s, al, now, fail) ==
    IF InvalidTimestamp(timestamp, now)
    THEN Result(s, al, Resp(400, "Invalid timestamp", ""))
    ELSE IF fail = "get"
    THEN Threw(s, al)
    ELSE IF TruthyNumber(s, "created_at")
    THEN Result(s, al, Resp(409, "Already created", ""))
    ELSE IF fail = "put_created_at"
    THEN Threw(s, al)
    ELSE LET s1 == Put(s, "created_at", timestamp) IN
         IF fail = "put_payload"
         THEN Threw(s1, al)
         ELSE LET s2 == Put(s1, "payload", payload) IN
              IF fail = "setAlarm"
              THEN Threw(s2, al)
              ELSE Result(s2, {ExpiryMs(timestamp)}, Resp(200, "", "created"))

\* a consume that also deletes the alarm
ConsumeClearsAlarm(s, al, fail) ==
    IF ~TruthyNumber(s, "created_at") \/ ~TruthyObject(s, "payload")
    THEN Result(s, al, Resp(404, "not_found", ""))
    ELSE Result(EmptyStorage, {}, Resp(200, "", s["payload"]))

\* a consume that answers the payload and leaves it stored
ConsumeWithoutBurn(s, al, fail) ==
    IF ~TruthyNumber(s, "created_at") \/ ~TruthyObject(s, "payload")
    THEN Result(s, al, Resp(404, "not_found", ""))
    ELSE Result(s, al, Resp(200, "", s["payload"]))

\* a consume that looks into the payload: one payload value is refused
ConsumeInterpretsPayload(s, al, fail) ==
    IF ~TruthyNumber(s, "created_at") \/ ~TruthyObject(s, "payload")
       \/ s["payload"] = "p2"
    THEN Result(s, al, Resp(404, "not_found", ""))
    ELSE Result(Delete(Delete(s, "created_at"), "payload"), al,
                Resp(200, "", s["payload"]))

Consume(s, al, fail) ==
    IF ~TruthyNumber(s, "created_at") \/ ~TruthyObject(s, "payload")
    THEN Result(s, al, Resp(404, "not_found", ""))
    ELSE IF fail = "delete_created_at"
    THEN Threw(s, al)
    ELSE LET s1 == Delete(s, "created_at") IN
         IF fail = "delete_payload"
         THEN Threw(s1, al)
         ELSE Result(Delete(s1, "payload"), al, Resp(200, "", s["payload"]))

\* a delete that answers "deleted" and leaves the pair stored
DeleteWithoutClear(s, al, fail) ==
    IF ~TruthyNumber(s, "created_at")
    THEN Result(s, al, Resp(404, "not_found", ""))
    ELSE Result(s, al, Resp(200, "", "deleted"))

DeleteStash(s, al, fail) ==
    IF ~TruthyNumber(s, "created_at")
    THEN Result(s, al, Resp(404, "not_found", ""))
    ELSE IF fail = "delete_created_at"
    THEN Threw(s, al)
    ELSE LET s1 == Delete(s, "created_at") IN
         IF fail = "delete_payload"
         THEN Threw(s1, al)
         ELSE Result(Delete(s1, "payload"), al, Resp(200, "", "deleted"))

Fetch(op, timestamp, payload, s, al, now, fail, alarmSurvives) ==
    IF op = "create"
    THEN Create(timestamp, payload, s, al, now, fail)
    ELSE IF fail = "get"
    THEN Threw(s, al)
    ELSE IF ReactiveShortCircuits(s, now)
    THEN ReactiveExpiry(s, al, now, fail, alarmSurvives)
    ELSE IF op = "consume"
    THEN Consume(s, al, fail)
    ELSE DeleteStash(s, al, fail)

\* an alarm callback that removes created_at and leaves the payload stored
AlarmHandlerKeepsPayload(s) == Delete(s, "created_at")

\* StasherDO.alarm: deleteAll inside blockConcurrencyWhile
AlarmHandler(s) == EmptyStorage

----------------------------------------------------------------------------
(* The state machine *)

\* arguments of a create, whether it was answered "created" (it threw otherwise)
\* and whether a create with another payload was answered "Already created" since
NoOrigin == [timestamp |-> 0, payload |-> "", answered |-> FALSE, replayed |-> FALSE]

\* the durable state of id and what is known of its history
Snapshot(id) ==
    [storage |-> storage[id], alarm |-> alarm[id], removed |-> removed[id],
     created |-> created[id], origin |-> origin[id]]

NoSnapshot ==
    [storage |-> EmptyStorage, alarm |-> {}, removed |-> FALSE,
     created |-> 0, origin |-> NoOrigin]

\* what is kept of the request handled before the latest one: its operation,
\* when it was answered 200
NoPrev == [op |-> "none", status |-> 0]

PrevOf(c) ==
    IF ~c.threw /\ c.resp.status = 200
    THEN [op |-> c.op, status |-> c.resp.status]
    ELSE NoPrev

NoCall ==
    [id |-> "", op |-> "none", timestamp |-> 0, payload |-> "", executedAt |-> 0,
     threw |-> FALSE, resp |-> NoResp, pre |-> NoSnapshot, post |-> NoSnapshot,
     prev |-> NoPrev]

Init ==
    /\ nowMs = StartMs
    /\ storage = [id \in Ids |-> EmptyStorage]
    /\ alarm = [id \in Ids |-> {}]
    /\ kv = [id \in Ids |-> NoEntry]
    /\ calls = <<>>
    /\ ncalls = 0
    /\ removed = [id \in Ids |-> FALSE]
    /\ created = [id \in Ids |-> 0]
    /\ origin = [id \in Ids |-> NoOrigin]
    /\ last = NoCall

\* the clock advances
Tick ==
    /\ \E t \in Instants : t > nowMs /\ nowMs' = t
    /\ UNCHANGED <<storage, alarm, kv, calls, ncalls, removed, created, origin, last>>

\* the payload stored is gone after the step
PayloadRemoved(before, after) == Has(before, "payload") /\ ~Has(after, "payload")

IsCreated(op, r) == op = "create" /\ ~r.threw /\ r.resp.status = 200

IsRefused(op, r) == op = "create" /\ ~r.threw /\ r.resp.status = 409

\* the coordinator of id runs the whole handler of one request
Handle(id, op, timestamp, payload, fail, alarmSurvives) ==
    LET r == Fetch(op, timestamp, payload, storage[id], alarm[id], nowMs,
                   fail, alarmSurvives)
        rem == removed[id] \/ PayloadRemoved(storage[id], r.storage)
        cnt == IF IsCreated(op, r) THEN created[id] + 1 ELSE created[id]
        stored == IsCreated(op, r) \/ (r.threw /\ r.storage # storage[id])
        lc == IF op = "create" /\ stored
              THEN [timestamp |-> timestamp, payload |-> payload,
                    answered |-> ~r.threw, replayed |-> FALSE]
              ELSE IF IsRefused(op, r) /\ payload # origin[id].payload
              THEN [origin[id] EXCEPT !.replayed = TRUE]
              ELSE origin[id]
    IN  /\ storage' = [storage EXCEPT ![id] = r.storage]
        /\ alarm' = [alarm EXCEPT ![id] = r.alarm]
        /\ ncalls' = ncalls + 1
        /\ removed' = [removed EXCEPT ![id] = rem]
        /\ created' = [created EXCEPT ![id] = cnt]
        /\ origin' = [origin EXCEPT ![id] = lc]
        /\ last' = [id |-> id, op |-> op, timestamp |-> timestamp,
                    payload |-> payload, executedAt |-> nowMs,
                    threw |-> r.threw, resp |-> r.resp, pre |-> Snapshot(id),
                    post |-> [storage |-> r.storage, alarm |-> r.alarm,
                              removed |-> rem, created |-> cnt, origin |-> lc],
                    prev |-> PrevOf(last)]
        /\ UNCHANGED <<nowMs, kv>>

\* a request arrives at the coordinator of id and is handled
Call(id, op, timestamp, payload, fail, alarmSurvives) ==
    /\ ncalls < MaxCalls
    /\ Handle(id, op, timestamp, payload, fail, alarmSurvives)
    /\ UNCHANGED calls

\* the storage calls of create that may reject
CreateFailPoints == {"none", "get", "put_created_at", "put_payload", "setAlarm"}

CallCreate ==
    \E id \in Ids, timestamp \in TimestampValues, payload \in Payloads,
       fail \in CreateFailPoints :
        Call(id, "create", timestamp, payload, fail, TRUE)

\* the storage calls of consume and delete that may reject
ReadFailPoints == {"none", "get", "deleteAll", "delete_created_at", "delete_payload"}

\* the runtime's choice matters only when deleteAll runs to its end
AlarmChoices(fail) == IF fail = "none" THEN BOOLEAN ELSE {TRUE}

CallConsume ==
    \E id \in Ids, fail \in ReadFailPoints :
        \E alarmSurvives \in AlarmChoices(fail) :
            Call(id, "consume", 0, "", fail, alarmSurvives)

CallDelete ==
    \E id \in Ids, fail \in ReadFailPoints :
        \E alarmSurvives \in AlarmChoices(fail) :
            Call(id, "delete", 0, "", fail, alarmSurvives)

\* the runtime fires the armed alarm of id at or after its time
Alarm(id) ==
    /\ \E t \in alarm[id] : nowMs >= t
    /\ storage' = [storage EXCEPT ![id] = AlarmHandler(@)]
    /\ alarm' = [alarm EXCEPT ![id] = {}]
    /\ removed' = [removed EXCEPT ![id] = @ \/ Has(storage[id], "payload")]
    /\ UNCHANGED <<nowMs, kv, calls, ncalls, created, origin, last>>

AlarmFires == \E id \in Ids : Alarm(id)

Next ==
    \/ Tick
    \/ CallCreate
    \/ CallConsume
    \/ CallDelete
    \/ AlarmFires

Spec == Init /\ [][Next]_vars

\* the runtime fires a due alarm, and time passes
FairSpec == Spec /\ WF_vars(AlarmFires) /\ WF_vars(Tick)

\* the runs in which no storage call rejects
ReliableCreate ==
    \E id \in Ids, timestamp \in TimestampValues, payload \in Payloads :
        Call(id, "create", timestamp, payload, "none", TRUE)

ReliableConsume ==
    \E id \in Ids, alarmSurvives \in BOOLEAN :
        Call(id, "consume", 0, "", "none", alarmSurvives)

ReliableDelete ==
    \E id \in Ids, alarmSurvives \in BOOLEAN :
        Call(id, "delete", 0, "", "none", alarmSurvives)

ReliableNext ==
    \/ Tick
    \/ ReliableCreate
    \/ ReliableConsume
    \/ ReliableDelete
    \/ AlarmFires

ReliableSpec == Init /\ [][ReliableNext]_vars

----------------------------------------------------------------------------
(* The gateway in front of the coordinator (part_003, the worker's fetch):  *)
(* POST /enstash draws an id with crypto.randomUUID(), takes the timestamp  *)
(* from its clock and asks the coordinator of the id to create; the answer  *)
(* it gives depends only on how the coordinator's create ended.             *)

\* the ids crypto.randomUUID() may return
randomUUID == Ids

\* the gateway's answer to POST /enstash, c being the coordinator's create
EnstashAnswer(c) ==
    IF c.threw
    THEN Resp(500, "Failed to create stash record", "")
    ELSE IF c.resp.status \in 200..299
    THEN Resp(201, "", c.id)
    ELSE IF c.resp.status = 409
    THEN Resp(201, "", c.id)
    ELSE Resp(500, "Failed to create stash record", "")

\* POST /enstash: one create at the coordinator of a drawn id
GatewayEnstash ==
    \E id \in randomUUID, payload \in Payloads, fail \in CreateFailPoints :
        Call(id, "create", nowMs \div MsPerSecond, payload, fail, TRUE)

\* GET /destash/{id} and DELETE /unstash/{id} ask the coordinator to consume
\* and to delete
GatewayNext ==
    \/ Tick
    \/ GatewayEnstash
    \/ CallConsume
    \/ CallDelete
    \/ AlarmFires

GatewaySpec == Init /\ [][GatewayNext]_vars

----------------------------------------------------------------------------
(* Concurrent requests on one identifier: n requests are in flight at once *)
(* on a secret that a create has just stored; the coordinator's gate       *)
(* (blockConcurrencyWhile) lets their handlers run one at a time, in any   *)
(* order, while the clock advances and the alarm may fire.                 *)

Pending(op, id) ==
    [id |-> id, op |-> op, done |-> FALSE, threw |-> FALSE, resp |-> NoResp]

RaceInit ==
    \E id \in Ids, timestamp \in TimestampValues, payload \in Payloads,
       n \in 2..MaxRacers :
      \E ops \in [1..n -> {"consume", "delete"}] :
        LET r == Fetch("create", timestamp, payload, EmptyStorage, {}, StartMs,
                       "none", TRUE)
            o == [timestamp |-> timestamp, payload |-> payload, answered |-> TRUE,
                  replayed |-> FALSE]
        IN  /\ r.resp.status = 200
            /\ nowMs = StartMs
            /\ storage = [i \in Ids |-> IF i = id THEN r.storage ELSE EmptyStorage]
            /\ alarm = [i \in Ids |-> IF i = id THEN r.alarm ELSE {}]
            /\ kv = [i \in Ids |-> NoEntry]
            /\ calls = [k \in 1..n |-> Pending(ops[k], id)]
            /\ ncalls = 1
            /\ removed = [i \in Ids |-> FALSE]
            /\ created = [i \in Ids |-> IF i = id THEN 1 ELSE 0]
            /\ origin = [i \in Ids |-> IF i = id THEN o ELSE NoOrigin]
            /\ last = [id |-> id, op |-> "create", timestamp |-> timestamp,
                       payload |-> payload, executedAt |-> StartMs,
                       threw |-> FALSE, resp |-> r.resp, pre |-> NoSnapshot,
                       post |-> [storage |-> r.storage, alarm |-> r.alarm,
                                 removed |-> FALSE, created |-> 1, origin |-> o],
                       prev |-> NoPrev]

\* the gate admits waiting request i: its whole handler runs
Execute(i, fail, alarmSurvives) ==
    /\ ~calls[i].done
    /\ Handle(calls[i].id, calls[i].op, 0, "", fail, alarmSurvives)
    /\ calls' = [calls EXCEPT ![i] =
          [@ EXCEPT !.done = TRUE, !.threw = last'.threw, !.resp = last'.resp]]

ExecuteCall ==
    \E i \in 1..Len(calls), fail \in ReadFailPoints :
        \E alarmSurvives \in AlarmChoices(fail) :
            Execute(i, fail, alarmSurvives)

RaceNext ==
    \/ Tick
    \/ ExecuteCall
    \/ AlarmFires

RaceSpec == RaceInit /\ [][RaceNext]_vars

----------------------------------------------------------------------------
(* The handlers storage call by storage call. Requests and the alarm are   *)
(* delivered to one coordinator while others are still running; a handler  *)
(* enters through blockConcurrencyWhile and then makes its awaited calls   *)
(* one step at a time, the clock advancing in between.                     *)

\* requests and alarm deliveries in flight at one coordinator
MaxInFlight == 2

NoStart == [storage |-> EmptyStorage, alarm |-> {}]

InFlight(id, op, timestamp, payload) ==
    [id |-> id, op |-> op, timestamp |-> timestamp, payload |-> payload,
     pc |-> "waiting", now |-> 0, start |-> NoStart, read |-> "",
     threw |-> FALSE, resp |-> NoResp]

\* the callback of request c is between its entry and its end
Running(c) == c.pc \notin {"waiting", "done"}

\* a gate that lets every event in
GateOpen(cs) == TRUE

\* blockConcurrencyWhile: no event is delivered while a callback is running
GateFree(cs) == \A j \in 1..Len(cs) : ~Running(cs[j])

\* the results of one step of a handler
Goto(c, s, al, pc) ==
    [call |-> [c EXCEPT !.pc = pc], storage |-> s, alarm |-> al]

Finish(c, s, al, resp) ==
    [call |-> [c EXCEPT !.pc = "done", !.resp = resp, !.now = 0,
                        !.start = NoStart, !.read = ""],
     storage |-> s, alarm |-> al]

Reject(c, s, al) ==
    [call |-> [c EXCEPT !.pc = "done", !.threw = TRUE, !.now = 0,
                        !.start = NoStart, !.read = ""],
     storage |-> s, alarm |-> al]

\* /create, one awaited call per step
CreateStep(c, s, al, now, throws) ==
    IF c.pc = "begin"
    THEN IF InvalidTimestamp(c.timestamp, now)
         THEN Finish(c, s, al, Resp(400, "Invalid timestamp", ""))
         ELSE Goto([c EXCEPT !.now = now], s, al, "get")
    ELSE IF throws
    THEN Reject(c, s, al)
    ELSE IF c.pc = "get"
    THEN IF TruthyNumber(s, "created_at")
         THEN Finish(c, s, al, Resp(409, "Already created", ""))
         ELSE Goto(c, s, al, "put_created_at")
    ELSE IF c.pc = "put_created_at"
    THEN Goto(c, Put(s, "created_at", c.timestamp), al, "put_payload")
    ELSE IF c.pc = "put_payload"
    THEN Goto(c, Put(s, "payload", c.payload), al, "setAlarm")
    ELSE Finish(c, s, {ExpiryMs(c.timestamp)}, Resp(200, "", "created"))

\* /consume and /delete, one awaited call per step
AccessStep(c, s, al, now, throws, alarmSurvives) ==
    IF throws
    THEN Reject(c, s, al)
    ELSE IF c.pc = "begin"
    THEN IF ~TruthyNumber(s, "created_at")
         THEN Finish(c, s, al, Resp(410, "Gone", ""))
         ELSE IF now >= ExpiryMs(s["created_at"])
         THEN Goto([c EXCEPT !.now = now], s, al, "deleteAll")
         ELSE Goto([c EXCEPT !.now = now], s, al, "get")
    ELSE IF c.pc = "deleteAll"
    THEN Finish(c, EmptyStorage, DeleteAllAlarm(al, alarmSurvives),
                Resp(410, "Expired", ""))
    ELSE IF c.pc = "get"
    THEN IF \/ ~TruthyNumber(s, "created_at")
            \/ (c.op = "consume" /\ ~TruthyObject(s, "payload"))
         THEN Finish(c, s, al, Resp(404, "not_found", ""))
         ELSE Goto([c EXCEPT !.read = IF c.op = "consume" THEN s["payload"] ELSE ""],
                   s, al, "delete_created_at")
    ELSE IF c.pc = "delete_created_at"
    THEN Goto(c, Delete(s, "created_at"), al, "delete_payload")
    ELSE Finish(c, Delete(s, "payload"), al,
                Resp(200, "", IF c.op = "consume" THEN c.read ELSE "deleted"))

\* alarm(): deleteAll; the alarm that fired is no longer armed
AlarmStep(c, s, al) == Finish(c, AlarmHandler(s), {}, NoResp)

StepInit ==
    \E n \in 1..MaxInFlight :
      \E reqs \in [1..n -> {InFlight(id, "create", t, p) :
                               id \in Ids, t \in TimestampValues, p \in Payloads}
                           \cup {InFlight(id, op, 0, "") :
                               id \in Ids, op \in {"consume", "delete", "alarm"}}] :
        /\ nowMs = StartMs
        /\ storage = [id \in Ids |-> EmptyStorage]
        /\ alarm = [id \in Ids |-> {}]
        /\ kv = [id \in Ids |-> NoEntry]
        /\ calls = reqs
        /\ ncalls = 0
        /\ removed = [id \in Ids |-> FALSE]
        /\ created = [id \in Ids |-> 0]
        /\ origin = [id \in Ids |-> NoOrigin]
        /\ last = NoCall

\* event i is delivered: its callback starts inside blockConcurrencyWhile
Enter(i) ==
    LET c == calls[i] IN
    /\ c.pc = "waiting"
    /\ GateFree(calls)
    /\ c.op = "alarm" => \E t \in alarm[c.id] : nowMs >= t
    /\ calls' = [calls EXCEPT ![i] =
          [c EXCEPT !.pc = "begin",
                    !.start = [storage |-> storage[c.id], alarm |-> alarm[c.id]]]]
    /\ UNCHANGED <<nowMs, storage, alarm, kv, ncalls, removed, created, origin, last>>

EnterGate == \E i \in 1..Len(calls) : Enter(i)

\* the running callback of event i makes its next awaited call
Run(i, throws, alarmSurvives) ==
    LET c == calls[i]
        s == storage[c.id]
        al == alarm[c.id]
        r == IF c.op = "create" THEN CreateStep(c, s, al, nowMs, throws)
             ELSE IF c.op = "alarm" THEN AlarmStep(c, s, al)
             ELSE AccessStep(c, s, al, nowMs, throws, alarmSurvives)
    IN  /\ Running(c)
        /\ throws => c.op # "alarm" /\ ~(c.op = "create" /\ c.pc = "begin")
        /\ ~alarmSurvives => c.pc = "deleteAll" /\ ~throws
        /\ calls' = [calls EXCEPT ![i] = r.call]
        /\ storage' = [storage EXCEPT ![c.id] = r.storage]
        /\ alarm' = [alarm EXCEPT ![c.id] = r.alarm]
        /\ UNCHANGED <<nowMs, kv, ncalls, removed, created, origin, last>>

RunStep ==
    \E i \in 1..Len(calls), throws \in BOOLEAN, alarmSurvives \in BOOLEAN :
        Run(i, throws, alarmSurvives)

StepNext ==
    \/ Tick
    \/ EnterGate
    \/ RunStep

StepSpec == StepInit /\ [][StepNext]_vars

----------------------------------------------------------------------------
(* Two identifiers: the gateway sends each request to the coordinator that *)
(* idFromName gives for the identifier in its path.                        *)

PairIds == {"id1", "id2"}

\* a namespace in which every name gets the same object
idFromNameShared(name) == <<"STASHER_DO", "shared">>

\* env.STASHER_DO.idFromName: the object id derived from the name
idFromName(name) == <<"STASHER_DO", name>>

Objects == {idFromName(name) : name \in PairIds}

PairInit ==
    /\ nowMs = StartMs
    /\ storage = [o \in Objects |-> EmptyStorage]
    /\ alarm = [o \in Objects |-> {}]
    /\ kv = [id \in Ids |-> NoEntry]
    /\ calls = <<>>
    /\ ncalls = 0
    /\ removed = [o \in Objects |-> FALSE]
    /\ created = [o \in Objects |-> 0]
    /\ origin = [o \in Objects |-> NoOrigin]
    /\ last = NoCall

\* POST /enstash hands its payload to the coordinator of the identifier
PairCreate ==
    \E name \in PairIds, timestamp \in TimestampValues, payload \in Payloads :
        Call(idFromName(name), "create", timestamp, payload, "none", TRUE)

\* GET /destash/<id>
PairConsume ==
    \E name \in PairIds, alarmSurvives \in BOOLEAN :
        Call(idFromName(name), "consume", 0, "", "none", alarmSurvives)

\* DELETE /unstash/<id>
PairDelete ==
    \E name \in PairIds, alarmSurvives \in BOOLEAN :
        Call(idFromName(name), "delete", 0, "", "none", alarmSurvives)

PairAlarm == \E o \in Objects : Alarm(o)

PairNext ==
    \/ Tick
    \/ PairCreate
    \/ PairConsume
    \/ PairDelete
    \/ PairAlarm

PairSpec == PairInit /\ [][PairNext]_vars

----------------------------------------------------------------------------
(* The KV-only worker (src/worker.ts): the requests for one identifier, the *)
(* awaited KV calls of each being separate steps.                          *)

\* requests in flight at a worker for one identifier
MaxRequests == 3

Request(id, op, payload) ==
    [id |-> id, op |-> op, payload |-> payload, pc |-> "waiting", data |-> "",
     after |-> FALSE, resp |-> NoResp]

\* the request has been answered with status
Answered(c, status) == c.pc = "done" /\ c.resp.status = status

\* some destash has been answered 200 with the payload
SomeDestashed(cs) ==
    \E j \in 1..Len(cs) : cs[j].op = "destash" /\ Answered(cs[j], 200)

Reply(c, resp) == [c EXCEPT !.pc = "done", !.resp = resp, !.data = ""]

\* the first awaited call of each route
FirstCall(op) == IF op = "enstash" THEN "kv_put" ELSE "kv_get"

WorkerInit(racers) ==
    \E id \in Ids, payload \in Payloads, n \in 1..(MaxRequests - 1) :
      \E ops \in [1..n -> racers] :
        /\ nowMs = StartMs
        /\ storage = [i \in Ids |-> EmptyStorage]
        /\ alarm = [i \in Ids |-> {}]
        /\ kv = [i \in Ids |-> NoEntry]
        /\ calls = <<Request(id, "enstash", payload)>>
                      \o [k \in 1..n |-> Request(id, ops[k], "")]
        /\ ncalls = 0
        /\ removed = [i \in Ids |-> FALSE]
        /\ created = [i \in Ids |-> 0]
        /\ origin = [i \in Ids |-> NoOrigin]
        /\ last = NoCall

KvInit == WorkerInit({"destash", "unstash"})

\* the worker starts to handle request i
KvStart(i) ==
    /\ calls[i].pc = "waiting"
    /\ calls' = [calls EXCEPT ![i] =
          [calls[i] EXCEPT !.pc = FirstCall(calls[i].op),
                           !.after = SomeDestashed(calls)]]
    /\ UNCHANGED <<nowMs, storage, alarm, kv, ncalls, removed, created, origin, last>>

KvStartRequest == \E i \in 1..Len(calls) : KvStart(i)

\* POST /enstash: the put
KvEnstash(i) ==
    LET c == calls[i] IN
    /\ c.op = "enstash" /\ c.pc = "kv_put"
    /\ kv' = [kv EXCEPT ![c.id] = KvPut(@, c.payload, nowMs)]
    /\ calls' = [calls EXCEPT ![i] = Reply(c, Resp(201, "", c.id))]
    /\ UNCHANGED <<nowMs, storage, alarm, ncalls, removed, created, origin, last>>

\* GET /destash and DELETE /unstash with the get, the delete and the answer
\* in one step
KvReadAndBurn(i) ==
    LET c == calls[i] IN
    /\ c.op \in {"destash", "unstash"} /\ c.pc = "kv_get"
    /\ \E data \in KvGet(kv[c.id], nowMs) :
          /\ calls' = [calls EXCEPT ![i] =
                IF data = {}
                THEN Reply(c, Resp(404, "Stash not found", ""))
                ELSE Reply([c EXCEPT !.data = CHOOSE v \in data : TRUE],
                           Resp(200, "", IF c.op = "destash"
                                         THEN CHOOSE v \in data : TRUE
                                         ELSE "deleted"))]
          /\ kv' = IF data = {} THEN kv
                   ELSE [kv EXCEPT ![c.id] = KvDelete(@, nowMs)]
    /\ UNCHANGED <<nowMs, storage, alarm, ncalls, removed, created, origin, last>>

\* GET /destash and DELETE /unstash: the get
KvRead(i) ==
    LET c == calls[i] IN
    /\ c.op \in {"destash", "unstash"} /\ c.pc = "kv_get"
    /\ \E data \in KvGet(kv[c.id], nowMs) :
          calls' = [calls EXCEPT ![i] =
              IF data = {}
              THEN Reply(c, Resp(404, "Stash not found", ""))
              ELSE [c EXCEPT !.pc = "kv_delete",
                             !.data = CHOOSE v \in data : TRUE]]
    /\ UNCHANGED <<nowMs, storage, alarm, kv, ncalls, removed, created, origin, last>>

\* GET /destash and DELETE /unstash: the delete, and the answer
KvBurn(i) ==
    LET c == calls[i] IN
    /\ c.op \in {"destash", "unstash"} /\ c.pc = "kv_delete"
    /\ kv' = [kv EXCEPT ![c.id] = KvDelete(@, nowMs)]
    /\ calls' = [calls EXCEPT ![i] =
          Reply(c, Resp(200, "", IF c.op = "destash" THEN c.data ELSE "deleted"))]
    /\ UNCHANGED <<nowMs, storage, alarm, ncalls, removed, created, origin, last>>

KvStep == \E i \in 1..Len(calls) : KvEnstash(i) \/ KvRead(i) \/ KvBurn(i)

\* the latest write of id has reached every location
KvSettle ==
    /\ \E id \in Ids :
          /\ kv[id].stale # {}
          /\ kv' = [kv EXCEPT ![id] = KvSettled(@)]
    /\ UNCHANGED <<nowMs, storage, alarm, calls, ncalls, removed, created, origin, last>>

KvNext ==
    \/ Tick
    \/ KvStartRequest
    \/ KvStep
    \/ KvSettle

KvSpec == KvInit /\ [][KvNext]_vars

----------------------------------------------------------------------------
(* The hybrid worker (part_004): the coordinator keeps created_at and the  *)
(* alarm, the payload lives in KV. The coordinator's handlers: *)

HybridCreate(timestamp, s, al, now, fail) ==
    IF InvalidTimestamp(timestamp, now)
    THEN Result(s, al, Resp(400, "Invalid timestamp", ""))
    ELSE IF fail = "get"
    THEN Threw(s, al)
    ELSE IF TruthyNumber(s, "created_at")
    THEN Result(s, al, Resp(409, "Already created", ""))
    ELSE IF fail = "put_created_at"
    THEN Threw(s, al)
    ELSE LET s1 == Put(s, "created_at", timestamp) IN
         IF fail = "setAlarm"
         THEN Threw(s1, al)
         ELSE Result(s1, {ExpiryMs(timestamp)}, Resp(200, "", "created"))

\* a consume that grants and leaves created_at stored
HybridConsumeWithoutBurn(s, al, fail, granted) ==
    IF ~TruthyNumber(s, "created_at")
    THEN Result(s, al, Resp(404, "not_found", ""))
    ELSE Result(s, al, Resp(200, "", granted))

\* /consume and DELETE: granted is the status the answer carries
HybridConsume(s, al, fail, granted) ==
    IF ~TruthyNumber(s, "created_at")
    THEN Result(s, al, Resp(404, "not_found", ""))
    ELSE IF fail = "delete_created_at"
    THEN Threw(s, al)
    ELSE Result(Delete(s, "created_at"), al, Resp(200, "", granted))

HybridFetch(op, timestamp, s, al, now, fail, alarmSurvives) ==
    IF op = "create"
    THEN HybridCreate(timestamp, s, al, now, fail)
    ELSE IF fail = "get"
    THEN Threw(s, al)
    ELSE IF ReactiveShortCircuits(s, now)
    THEN ReactiveExpiry(s, al, now, fail, alarmSurvives)
    ELSE IF op = "consume"
    THEN HybridConsume(s, al, fail, "consumed")
    ELSE HybridConsume(s, al, fail, "deleted")

\* the storage calls of the hybrid coordinator that may reject
HybridFailPoints(op) ==
    IF op = "create"
    THEN {"none", "get", "put_created_at", "setAlarm"}
    ELSE {"none", "get", "deleteAll", "delete_created_at"}

\* the gateway's answer to a coordinator answer that is not ok
NotOk(resp) ==
    IF resp.status = 410
    THEN Resp(410, IF resp.error = "Expired" THEN "Stash expired"
                   ELSE "Stash already consumed", "")
    ELSE Resp(404, "Stash not found", "")

InternalError == Resp(500, "Internal server error", "")

\* the first awaited call of each route of the hybrid gateway
HybridFirstCall(op) ==
    IF op = "enstash" THEN "kv_put"
    ELSE IF op = "destash" THEN "do_consume"
    ELSE "do_delete"

HybridInit == WorkerInit({"destash", "unstash"})

HybridStart(i) ==
    /\ calls[i].pc = "waiting"
    /\ calls' = [calls EXCEPT ![i] =
          [calls[i] EXCEPT !.pc = HybridFirstCall(calls[i].op),
                           !.after = SomeDestashed(calls)]]
    /\ UNCHANGED <<nowMs, storage, alarm, kv, ncalls, removed, created, origin, last>>

HybridStartRequest == \E i \in 1..Len(calls) : HybridStart(i)

\* POST /enstash, step 1: the payload goes to KV
EnstashPut(i, throws) ==
    LET c == calls[i] IN
    /\ c.op = "enstash" /\ c.pc = "kv_put"
    /\ IF throws
       THEN /\ calls' = [calls EXCEPT ![i] =
                   Reply(c, Resp(500, "Failed to store encrypted payload", ""))]
            /\ UNCHANGED kv
       ELSE /\ calls' = [calls EXCEPT ![i] = [c EXCEPT !.pc = "do_create"]]
            /\ kv' = [kv EXCEPT ![c.id] = KvPut(@, c.payload, nowMs)]
    /\ UNCHANGED <<nowMs, storage, alarm, ncalls, removed, created, origin, last>>

\* POST /enstash, step 2: the coordinator's create
EnstashCreate(i, fail) ==
    LET c == calls[i]
        r == HybridFetch("create", nowMs \div MsPerSecond, storage[c.id],
                         alarm[c.id], nowMs, fail, TRUE)
    IN  /\ c.op = "enstash" /\ c.pc = "do_create"
        /\ storage' = [storage EXCEPT ![c.id] = r.storage]
        /\ alarm' = [alarm EXCEPT ![c.id] = r.alarm]
        /\ calls' = [calls EXCEPT ![i] =
              IF ~r.threw /\ r.resp.status \in {200, 409}
              THEN Reply(c, Resp(201, "", c.id))
              ELSE [c EXCEPT !.pc = "rollback"]]
        /\ UNCHANGED <<nowMs, kv, ncalls, removed, created, origin, last>>

\* POST /enstash answering 500 after a failed create without the rollback
EnstashWithoutRollback(i) ==
    LET c == calls[i] IN
    /\ c.op = "enstash" /\ c.pc = "rollback"
    /\ calls' = [calls EXCEPT ![i] =
          Reply(c, Resp(500, "Failed to create stash record", ""))]
    /\ UNCHANGED <<nowMs, storage, alarm, kv, ncalls, removed, created, origin, last>>

\* POST /enstash, rollback: the KV entry is deleted
EnstashRollback(i) ==
    LET c == calls[i] IN
    /\ c.op = "enstash" /\ c.pc = "rollback"
    /\ kv' = [kv EXCEPT ![c.id] = KvDelete(@, nowMs)]
    /\ calls' = [calls EXCEPT ![i] =
          Reply(c, Resp(500, "Failed to create stash record", ""))]
    /\ UNCHANGED <<nowMs, storage, alarm, ncalls, removed, created, origin, last>>

\* GET /destash and DELETE /unstash: the coordinator is asked first
AskCoordinator(i, fail, alarmSurvives) ==
    LET c == calls[i]
        op == IF c.op = "destash" THEN "consume" ELSE "delete"
        r == HybridFetch(op, 0, storage[c.id], alarm[c.id], nowMs, fail,
                         alarmSurvives)
    IN  /\ c.op \in {"destash", "unstash"}
        /\ c.pc \in {"do_consume", "do_delete"}
        /\ storage' = [storage EXCEPT ![c.id] = r.storage]
        /\ alarm' = [alarm EXCEPT ![c.id] = r.alarm]
        /\ calls' = [calls EXCEPT ![i] =
              IF r.threw THEN Reply(c, InternalError)
              ELSE IF r.resp.status # 200 THEN Reply(c, NotOk(r.resp))
              ELSE [c EXCEPT !.pc = IF c.op = "destash" THEN "kv_get"
                                    ELSE "kv_delete"]]
        /\ UNCHANGED <<nowMs, kv, ncalls, removed, created, origin, last>>

\* GET /destash: the coordinator gave permission, the payload is read from KV
DestashGet(i) ==
    LET c == calls[i] IN
    /\ c.op = "destash" /\ c.pc = "kv_get"
    /\ \E data \in KvGet(kv[c.id], nowMs) :
          calls' = [calls EXCEPT ![i] =
              IF data = {}
              THEN Reply(c, Resp(404, "Stash not found", ""))
              ELSE [c EXCEPT !.pc = "kv_delete",
                             !.data = CHOOSE v \in data : TRUE]]
    /\ UNCHANGED <<nowMs, storage, alarm, kv, ncalls, removed, created, origin, last>>

\* GET /destash and DELETE /unstash: the KV entry is deleted, then the answer
HybridBurn(i) ==
    LET c == calls[i] IN
    /\ c.op \in {"destash", "unstash"} /\ c.pc = "kv_delete"
    /\ kv' = [kv EXCEPT ![c.id] = KvDelete(@, nowMs)]
    /\ calls' = [calls EXCEPT ![i] =
          Reply(c, Resp(200, "", IF c.op = "destash" THEN c.data ELSE "deleted"))]
    /\ UNCHANGED <<nowMs, storage, alarm, ncalls, removed, created, origin, last>>

EnstashStep ==
    \E i \in 1..Len(calls) :
        \/ \E throws \in BOOLEAN : EnstashPut(i, throws)
        \/ \E fail \in HybridFailPoints("create") : EnstashCreate(i, fail)
        \/ EnstashRollback(i)

CoordinatorStep ==
    \E i \in 1..Len(calls), fail \in HybridFailPoints("consume") :
        \E alarmSurvives \in AlarmChoices(fail) :
            AskCoordinator(i, fail, alarmSurvives)

KvAccessStep == \E i \in 1..Len(calls) : DestashGet(i) \/ HybridBurn(i)

HybridNext ==
    \/ Tick
    \/ HybridStartRequest
    \/ EnstashStep
    \/ CoordinatorStep
    \/ KvAccessStep
    \/ KvSettle
    \/ AlarmFires

HybridSpec == HybridInit /\ [][HybridNext]_vars

----------------------------------------------------------------------------
(* Two runs of one coordinator side by side: the same requests and timer    *)
(* events arrive at the same times in both, the same storage calls reject   *)
(* in both, and a create carries one payload in the first run and one in    *)
(* the second. storage and alarm hold the state of each run, calls the      *)
(* outcome of the latest request in each run.                               *)

Runs == {"run1", "run2"}

\* how a request ended in one run
Outcome(op, r) == [op |-> op, threw |-> r.threw, resp |-> r.resp]

TwinInit ==
    /\ nowMs = StartMs
    /\ storage = [run \in Runs |-> EmptyStorage]
    /\ alarm = [run \in Runs |-> {}]
    /\ kv = [id \in Ids |-> NoEntry]
    /\ calls = <<>>
    /\ ncalls = 0
    /\ removed = [id \in Ids |-> FALSE]
    /\ created = [id \in Ids |-> 0]
    /\ origin = [id \in Ids |-> NoOrigin]
    /\ last = NoCall

\* one request handled in both runs; payloads[run] is what it carries in run
TwinHandle(op, timestamp, payloads, fail, alarmSurvives) ==
    LET r == [run \in Runs |->
                 Fetch(op, timestamp, payloads[run], storage[run], alarm[run],
                       nowMs, fail, alarmSurvives)]
    IN  /\ ncalls < MaxCalls
        /\ storage' = [run \in Runs |-> r[run].storage]
        /\ alarm' = [run \in Runs |-> r[run].alarm]
        /\ calls' = [run \in Runs |-> Outcome(op, r[run])]
        /\ ncalls' = ncalls + 1
        /\ UNCHANGED <<nowMs, kv, removed, created, origin, last>>

TwinCreate ==
    \E timestamp \in TimestampValues, payloads \in [Runs -> Payloads],
       fail \in CreateFailPoints :
        TwinHandle("create", timestamp, payloads, fail, TRUE)

TwinConsume ==
    \E fail \in ReadFailPoints :
        \E alarmSurvives \in AlarmChoices(fail) :
            TwinHandle("consume", 0, [run \in Runs |-> ""], fail, alarmSurvives)

TwinDelete ==
    \E fail \in ReadFailPoints :
        \E alarmSurvives \in AlarmChoices(fail) :
            TwinHandle("delete", 0, [run \in Runs |-> ""], fail, alarmSurvives)

\* the alarm of run is armed and due
Due(run) == \E t \in alarm[run] : nowMs >= t

\* a timer event: the runtime fires the alarm in every run in which it is due
TwinAlarm ==
    /\ \E run \in Runs : Due(run)
    /\ storage' = [run \in Runs |->
                      IF Due(run) THEN AlarmHandler(storage[run]) ELSE storage[run]]
    /\ alarm' = [run \in Runs |-> IF Due(run) THEN {} ELSE alarm[run]]
    /\ UNCHANGED <<nowMs, kv, calls, ncalls, removed, created, origin, last>>

TwinNext ==
    \/ Tick
    \/ TwinCreate
    \/ TwinConsume
    \/ TwinDelete
    \/ TwinAlarm

TwinSpec == TwinInit /\ [][TwinNext]_vars

----------------------------------------------------------------------------
(* Vocabulary of the claims *)

\* the states of a coordinator
Active(s) == Has(s, "created_at") /\ Has(s, "payload")

Empty(s) == ~Has(s, "created_at") /\ ~Has(s, "payload")

\* the handler of call c ran to its end and answered
Returned(c) == c.op # "none" /\ ~c.threw

\* the outcomes, as the coordinator answers them
Created(c) == c.op = "create" /\ Returned(c) /\ c.resp.status = 200

AlreadyExists(c) == c.op = "create" /\ Returned(c) /\ c.resp.status = 409

InvalidTimestampAnswer(c) == c.op = "create" /\ Returned(c) /\ c.resp.status = 400

ConsumeSuccess(c) == c.op = "consume" /\ Returned(c) /\ c.resp.status = 200

DeleteSuccess(c) == c.op = "delete" /\ Returned(c) /\ c.resp.status = 200

NotFound(c) == Returned(c) /\ c.resp.status = 404 /\ c.resp.error = "not_found"

Gone(c) == Returned(c) /\ c.resp.status = 410 /\ c.resp.error = "Gone"

Expired(c) == Returned(c) /\ c.resp.status = 410 /\ c.resp.error = "Expired"

IsAccess(c) == c.op \in {"consume", "delete"}

----------------------------------------------------------------------------
(* C1: at-most-once consume *)

RaceId == calls[1].id

\* a finished race of consume requests only, all answered, all before the deadline
ConsumeRaceDone ==
    /\ Len(calls) >= 2
    /\ \A i \in 1..Len(calls) :
          calls[i].op = "consume" /\ calls[i].done /\ ~calls[i].threw
    /\ nowMs < ExpiryMs(origin[RaceId].timestamp)

\* exactly one request of the race got the payload, every other one got loser
OneWinner(IsLoser(_)) ==
    \E w \in 1..Len(calls) :
        /\ calls[w].resp.status = 200
        /\ calls[w].resp.body = origin[RaceId].payload
        /\ \A j \in (1..Len(calls)) \ {w} : IsLoser(calls[j])

RaceNotFound(c) == c.resp.status = 404 /\ c.resp.error = "not_found"

RaceGone(c) == c.resp.status = 410 /\ c.resp.error = "Gone"

\* C1 as stated: of N >= 2 concurrent consume calls on an Active, unexpired
\* secret exactly one returns Success(payload) and the others return NotFound.
C1_Original == ConsumeRaceDone => OneWinner(RaceNotFound)

\* C1 amended: of N >= 2 concurrent consume calls on an Active, unexpired secret
\* that are all answered before the deadline, exactly one returns
\* Success(payload) and each of the others is answered 410 "Gone".
C1_AtMostOnceConsume == ConsumeRaceDone => OneWinner(RaceGone)

C1_Witness ==
    /\ ConsumeRaceDone
    /\ Len(calls) = 3
    /\ calls[2].resp.status = 200
    /\ RaceGone(calls[1]) /\ RaceGone(calls[3])

----------------------------------------------------------------------------
(* C2: nothing is handed out at or after the deadline *)

----------------------------------------------------------------------------
(* C3: Empty after removal is terminal *)

\* C3: once the payload of an identifier has been removed, no later consume on
\* that identifier returns Success, whatever operations follow.
C3_Original == ConsumeSuccess(last) => ~last.pre.removed

----------------------------------------------------------------------------
(* C4: created_at and payload are present together *)

\* C4: in every reachable durable state, including those reached when a storage
\* step fails, created_at and payload are both present or both absent.
C4_Original ==
    \A id \in Ids : Has(storage[id], "created_at") <=> Has(storage[id], "payload")

----------------------------------------------------------------------------
(* C5: at most one successful create per identifier *)

\* C5: for a given identifier at most one create call ever returns Created.
C5_Original == \A id \in Ids : created[id] <= 1

----------------------------------------------------------------------------
(* C6: proactive wipe *)

\* C6: under fairness of the timer, every secret that becomes Active
\* eventually becomes Empty, even if no consume or delete is ever made.
C6_Original ==
    \A id \in Ids : Active(storage[id]) ~> Empty(storage[id])

----------------------------------------------------------------------------
(* C7: expiry monotonicity *)

\* C7 as stated: for an identifier created at t0, any consume or delete
\* invoked at a time >= t0 + 600 s returns Expired, never Success.
C7_Original ==
    (/\ IsAccess(last) /\ Returned(last)
     /\ last.pre.origin.answered
     /\ last.executedAt >= (last.pre.origin.timestamp + 600) * 1000)
        => Expired(last)

\* C7 amended: a consume or delete that is answered at a time >= the stored
\* created_at + 600 s returns Expired and leaves nothing stored; when no
\* created_at is stored any more (the timer, a consume, a delete or an earlier
\* expiry removed it) it is answered 410 "Gone" and changes nothing; it never
\* returns Success.
C7_ExpiredOrGone ==
    (IsAccess(last) /\ Returned(last))
        => IF ~Has(last.pre.storage, "created_at")
           THEN Gone(last) /\ last.post.storage = last.pre.storage
           ELSE last.executedAt >= (last.pre.storage["created_at"] + 600) * 1000
                   => Expired(last) /\ Empty(last.post.storage)

\* a delete reaches a stored secret after its deadline and is answered Expired
C7_Witness ==
    /\ last.op = "delete" /\ Expired(last)
    /\ Active(last.pre.storage)
    /\ last.executedAt > (last.pre.storage["created_at"] + 600) * 1000
    /\ Empty(last.post.storage)

----------------------------------------------------------------------------
(* C8: create on an Active identifier *)

Unchanged(c) ==
    c.post.storage = c.pre.storage /\ c.post.alarm = c.pre.alarm

\* C8 as stated: a create on an Active identifier returns AlreadyExists and
\* leaves created_at, payload and the armed deadline unchanged, whatever
\* timestamp or payload it carries.
C8_Original ==
    (last.op = "create" /\ Returned(last) /\ Active(last.pre.storage))
        => AlreadyExists(last) /\ Unchanged(last)

\* C8 amended: a create on an Active identifier leaves created_at, payload and
\* the armed deadline unchanged, whatever timestamp or payload it carries; it
\* returns AlreadyExists when its timestamp lies within [now - 300, now + 300]
\* and InvalidTimestamp otherwise.
C8_CreateOnActive ==
    (last.op = "create" /\ Active(last.pre.storage))
        => /\ Unchanged(last)
           /\ Returned(last) =>
                IF /\ last.timestamp >= (last.executedAt \div 1000) - 300
                   /\ last.timestamp <= (last.executedAt \div 1000) + 300
                THEN AlreadyExists(last)
                ELSE InvalidTimestampAnswer(last)

\* a replayed create with another timestamp and another payload is refused
C8_Witness ==
    /\ AlreadyExists(last)
    /\ Active(last.pre.storage)
    /\ last.timestamp # last.pre.storage["created_at"]
    /\ last.payload # last.pre.storage["payload"]
    /\ Unchanged(last)

----------------------------------------------------------------------------
(* C9: the payload is handed out verbatim *)

\* C9: a consume that returns Success returns exactly the payload passed to
\* the create call that returned Created for the secret, also when other
\* create calls with other payloads were answered AlreadyExists in between.
C9_PayloadVerbatim ==
    (ConsumeSuccess(last) /\ last.pre.origin.answered)
        => last.resp.body = last.pre.origin.payload

\* a create with another payload was refused before the consume
C9_Witness ==
    /\ ConsumeSuccess(last)
    /\ last.pre.origin.answered
    /\ last.pre.origin.replayed
    /\ last.resp.body = last.pre.origin.payload

----------------------------------------------------------------------------
(* C10: the skew check of create *)

InSkewWindow(c) ==
    /\ c.timestamp >= (c.executedAt \div 1000) - 300
    /\ c.timestamp <= (c.executedAt \div 1000) + 300

\* C10 as stated: create on an Empty identifier returns InvalidTimestamp and
\* leaves the state Empty with no wake-up armed when the timestamp is outside
\* [now - 300, now + 300], and returns Created for every timestamp inside.
C10_Original ==
    (last.op = "create" /\ Returned(last) /\ Empty(last.pre.storage))
        => IF InSkewWindow(last)
           THEN Created(last)
           ELSE /\ InvalidTimestampAnswer(last)
                /\ Empty(last.post.storage)
                /\ last.post.alarm = {}

\* C10 amended: create on an Empty identifier returns InvalidTimestamp, leaves
\* the state Empty and arms no wake-up (a wake-up still armed from an earlier
\* secret of the identifier stays as it is) when the timestamp is outside
\* [now - 300, now + 300], and returns Created for every timestamp inside.
C10_SkewCheck ==
    (last.op = "create" /\ Returned(last) /\ Empty(last.pre.storage))
        => IF InSkewWindow(last)
           THEN Created(last)
           ELSE /\ InvalidTimestampAnswer(last)
                /\ Empty(last.post.storage)
                /\ last.post.alarm = last.pre.alarm

\* the upper bound now + 300 itself is accepted
C10_Witness ==
    /\ Created(last)
    /\ Empty(last.pre.storage)
    /\ last.timestamp = (last.executedAt \div 1000) + 300

----------------------------------------------------------------------------
(* C11: delete, then consume *)

\* a consume is answered right after a delete of the same identifier was
\* answered "deleted", the secret having been stored by a create answered Created
ConsumeFollowsDelete ==
    /\ last.op = "consume" /\ Returned(last)
    /\ last.prev.op = "delete"
    /\ last.pre.origin.answered

\* C11 as stated: after create returns Created and, before the deadline, delete
\* returns Success, a following consume on the same identifier returns NotFound.
C11_Original == ConsumeFollowsDelete => NotFound(last)

\* C11 amended: after create returns Created and, before the deadline, delete
\* returns Success, a following consume on the same identifier is answered
\* 410 "Gone" and changes nothing.
C11_DeleteThenConsume == ConsumeFollowsDelete => Gone(last) /\ Unchanged(last)

\* the consume comes before the deadline of the deleted secret
C11_Witness ==
    /\ ConsumeFollowsDelete
    /\ Gone(last)
    /\ last.executedAt < (last.pre.origin.timestamp + 600) * 1000

----------------------------------------------------------------------------
(* C12: requests on an identifier that was never created *)

NeverCreated(snap) == snap.origin = NoOrigin /\ snap.created = 0

\* C12: consume and delete on an identifier that was never created return
\* NotFound (404, not 410) and leave the state Empty.
C12_Original ==
    (IsAccess(last) /\ Returned(last) /\ NeverCreated(last.pre))
        => NotFound(last) /\ Empty(last.post.storage)

----------------------------------------------------------------------------
(* C13: the operations of one identifier run one at a time *)

\* the storage calls that may reject
FailPoints == CreateFailPoints \cup ReadFailPoints

\* the callback of event i ends in this step, and what it has done since its
\* entry is what the whole handler does when run alone on the state it found
EndsAsIfAlone(i) ==
    LET c == calls[i]
        d == calls'[i]
        now == IF c.pc = "begin" THEN nowMs ELSE c.now
        outcome == [storage |-> storage'[c.id], alarm |-> alarm'[c.id],
                    resp |-> d.resp, threw |-> d.threw]
    IN  (Running(c) /\ d.pc = "done") =>
            IF c.op = "alarm"
            THEN /\ storage'[c.id] = AlarmHandler(c.start.storage)
                 /\ alarm'[c.id] = {}
            ELSE \E fail \in FailPoints, alarmSurvives \in BOOLEAN :
                    outcome = Fetch(c.op, c.timestamp, c.payload, c.start.storage,
                                    c.start.alarm, now, fail, alarmSurvives)

\* at most one callback is between its entry and its end
OneAtATime ==
    \A i, j \in 1..Len(calls) : (Running(calls[i]) /\ Running(calls[j])) => i = j

----------------------------------------------------------------------------
(* C14: a storage failure has no partial effect *)

\* C14: every operation that ends in a storage failure leaves created_at,
\* payload and the armed wake-up exactly as they were before it started.
C14_Original == (last.op # "none" /\ last.threw) => Unchanged(last)

----------------------------------------------------------------------------
(* C15: the wake-up when the pair is cleared *)

\* C15 as stated: between operations no wake-up is armed while the state of
\* an identifier is Empty.
C15_Original == \A id \in Ids : Empty(storage[id]) => alarm[id] = {}

\* the step clears the stored pair of id
PairCleared(id) == Active(storage[id]) /\ Empty(storage'[id])

\* C15 amended: when the pair of an identifier is cleared by the timer its
\* wake-up is cleared too; when it is cleared by a consume or a delete that
\* returns Success the armed wake-up stays exactly as it was; when it is
\* cleared by reactive expiry the wake-up is cleared or stays as it was.
C15_WakeUpAfterClear ==
    [][\A id \in Ids :
         PairCleared(id) =>
            IF ncalls' = ncalls
            THEN alarm'[id] = {}
            ELSE IF ConsumeSuccess(last') \/ DeleteSuccess(last')
            THEN alarm'[id] = alarm[id]
            ELSE Expired(last') /\ alarm'[id] \in {alarm[id], {}}]_vars

\* a consume has cleared the pair and the wake-up of the secret is still armed
C15_Witness ==
    /\ ConsumeSuccess(last)
    /\ Empty(storage[last.id])
    /\ alarm[last.id] = {(last.pre.storage["created_at"] + 600) * 1000}

----------------------------------------------------------------------------
(* C16: one wake-up per Active secret *)

\* C16: between operations, whenever the state of an identifier is Active and
\* its deadline has not been reached, exactly one wake-up is armed for it and
\* its deadline equals the stored created_at + 600 s.
C16_Original ==
    \A id \in Ids :
        (Active(storage[id]) /\ nowMs < (storage[id]["created_at"] + 600) * 1000)
            => alarm[id] = {(storage[id]["created_at"] + 600) * 1000}

----------------------------------------------------------------------------
(* C17: the timer callback of a creation *)

\* the wake-up armed by the create that was answered Created is armed
ArmedForCreation(id) ==
    /\ origin[id].answered
    /\ alarm[id] = {(origin[id].timestamp + 600) * 1000}

\* C17: for every create that returns Created, the timer callback runs exactly
\* once for that creation, not before created_at + 600 s, also when the secret
\* was consumed or deleted before the deadline. For the callback to run for a
\* creation at its deadline, the wake-up armed for it must stay armed, as it
\* is, for as long as the deadline has not been reached, whatever requests are
\* answered in the meantime.
C17_Original ==
    [][\A id \in Ids :
         (ArmedForCreation(id) /\ nowMs < (origin[id].timestamp + 600) * 1000)
            => alarm'[id] = alarm[id]]_vars

----------------------------------------------------------------------------
(* C18: identifiers are independent *)

\* the step handles a request for name, or runs the timer callback of name
OperatesOn(name) ==
    \/ ncalls' = ncalls + 1 /\ last'.id = idFromName(name)
    \/ /\ ncalls' = ncalls /\ nowMs' = nowMs
       /\ alarm[idFromName(name)] # {} /\ alarm'[idFromName(name)] = {}

\* the answer and the new state of a request handled for name are those of the
\* handler run on the state of name alone
OwnStateDecides(name) ==
    (ncalls' = ncalls + 1 /\ last'.id = idFromName(name)) =>
        \E alarmSurvives \in BOOLEAN :
            [storage |-> storage'[idFromName(name)],
             alarm |-> alarm'[idFromName(name)],
             resp |-> last'.resp, threw |-> last'.threw]
              = Fetch(last'.op, last'.timestamp, last'.payload,
                      storage[idFromName(name)], alarm[idFromName(name)],
                      nowMs, "none", alarmSurvives)

\* C18: operations on one identifier never change the stored state, the armed
\* wake-up or the outcomes of operations of any other identifier.
C18_Independent ==
    [][\A name \in PairIds :
         /\ OwnStateDecides(name)
         /\ OperatesOn(name) =>
               \A other \in PairIds \ {name} :
                  /\ storage'[idFromName(other)] = storage[idFromName(other)]
                  /\ alarm'[idFromName(other)] = alarm[idFromName(other)]]_vars

\* a secret is consumed under one identifier while another identifier holds
\* another secret, still stored with its wake-up armed
C18_Witness ==
    /\ ConsumeSuccess(last)
    /\ last.id = idFromName("id2")
    /\ Active(storage[idFromName("id1")])
    /\ storage[idFromName("id1")]["payload"] # last.resp.body
    /\ alarm[idFromName("id1")] # {}

----------------------------------------------------------------------------
(* C19: the hybrid worker hands a secret out at most once *)

\* the destash requests answered 200 with the payload
Destashed == {i \in 1..Len(calls) : calls[i].op = "destash" /\ Answered(calls[i], 200)}

\* C19: in the hybrid version, in every interleaving of concurrent
\* GET /destash requests for one id, at most one request answers 200 with the
\* payload.
C19_AtMostOneDestash == Cardinality(Destashed) <= 1

\* two destash requests were in flight together: one got the payload of the
\* enstash, the other was told the stash is already consumed
C19_Witness ==
    /\ Len(calls) = 3
    /\ calls[2].op = "destash" /\ calls[3].op = "destash"
    /\ calls[2].after = FALSE /\ calls[3].after = FALSE
    /\ Answered(calls[3], 200) /\ calls[3].resp.body = calls[1].payload
    /\ Answered(calls[2], 410) /\ calls[2].resp.error = "Stash already consumed"

----------------------------------------------------------------------------
(* C20: the KV-only worker, destash after destash *)

\* C20: in the KV-only worker, once a GET /destash/{id} has answered 200 with
\* the payload, every destash of the same id that starts afterwards answers
\* 404 'Stash not found'.
C20_Original ==
    \A i \in 1..Len(calls) :
        (calls[i].op = "destash" /\ calls[i].after /\ calls[i].pc = "done")
            => calls[i].resp.status = 404 /\ calls[i].resp.error = "Stash not found"

----------------------------------------------------------------------------
(* C21: the KV-only worker reads and deletes in two steps *)

\* C21: in the KV-only worker the get and the delete of GET /destash are
\* separate steps: the step in which a destash reads the key leaves KV as it
\* is, and a destash that has read a payload deletes the key and answers 200
\* with what it read in a later step, whatever has happened to the key in
\* between. Two concurrent destash requests that both read the stored secret
\* before either deletes it therefore both answer 200 with the payload.
C21_SeparateSteps ==
    [][\A i \in 1..Len(calls) :
          calls[i].op = "destash" =>
             /\ (calls[i].pc = "kv_get" /\ calls'[i].pc # "kv_get")
                   => /\ kv' = kv
                      /\ calls'[i].pc \in {"kv_delete", "done"}
                      /\ calls'[i].pc = "kv_delete"
                            => {calls'[i].data} \in KvGet(kv[calls[i].id], nowMs)
             /\ (calls[i].pc = "kv_delete" /\ calls'[i].pc # "kv_delete")
                   => /\ Answered(calls'[i], 200)
                      /\ calls'[i].resp.body = calls[i].data]_vars

\* two destash requests, neither started after an answer of the other, have
\* both read the payload of the enstash while the key still holds it; neither
\* has deleted yet
C21_Witness ==
    /\ Len(calls) = 3
    /\ calls[1].op = "enstash" /\ Answered(calls[1], 201)
    /\ calls[2].op = "destash" /\ calls[3].op = "destash"
    /\ calls[2].after = FALSE /\ calls[3].after = FALSE
    /\ calls[2].pc = "kv_delete" /\ calls[3].pc = "kv_delete"
    /\ calls[2].data = calls[1].payload /\ calls[3].data = calls[1].payload
    /\ Live(kv[calls[1].id], nowMs) = {calls[1].payload}

----------------------------------------------------------------------------
(* C22: a secret stays retrievable until its deadline *)

----------------------------------------------------------------------------
(* C23: one Success among concurrent consume and delete calls *)

\* a finished race of consume and delete requests, all answered, all before
\* the deadline
MixedRaceDone ==
    /\ Len(calls) >= 2
    /\ \A i \in 1..Len(calls) :
          IsAccess(calls[i]) /\ calls[i].done /\ ~calls[i].threw
    /\ nowMs < ExpiryMs(origin[RaceId].timestamp)

\* the requests of the race that reported Success
Succeeded == {i \in 1..Len(calls) : calls[i].done /\ calls[i].resp.status = 200}

\* C23: for any set of concurrent consume and delete calls on one Active,
\* unexpired secret that are all answered before the deadline, exactly one call
\* of the whole set reports Success; in every race, finished or not, with or
\* without rejected storage calls, at most one call reports Success and a
\* consume and a delete never both succeed.
C23_OneSuccess ==
    /\ MixedRaceDone => Cardinality(Succeeded) = 1
    /\ Cardinality(Succeeded) <= 1
    /\ ~\E i, j \in Succeeded :
          calls[i].op = "consume" /\ calls[j].op = "delete"

\* a delete and a consume raced: the delete reported Success and the consume
\* found nothing
C23_Witness ==
    /\ MixedRaceDone
    /\ \E i, j \in 1..Len(calls) :
          /\ calls[i].op = "delete" /\ calls[i].resp.status = 200
          /\ calls[j].op = "consume" /\ RaceGone(calls[j])

----------------------------------------------------------------------------
(* C24: what an Expired answer does *)

\* C24: a consume or delete that returns Expired clears created_at and payload
\* in the same operation and performs nothing else: nothing is stored
\* afterwards, no payload is returned, and the wake-up is either as it was or
\* cleared with the data.
C24_ExpiredClears ==
    (IsAccess(last) /\ Expired(last))
        => /\ Empty(last.post.storage)
           /\ last.post.storage = EmptyStorage
           /\ last.resp.body = ""
           /\ last.post.alarm \in {last.pre.alarm, {}}
           /\ last.post.created = last.pre.created

\* a consume reached a stored secret at its deadline: it was answered Expired
\* without the payload and the pair is gone
C24_Witness ==
    /\ last.op = "consume" /\ Expired(last)
    /\ Active(last.pre.storage)
    /\ last.executedAt >= (last.pre.storage["created_at"] + 600) * 1000
    /\ Empty(last.post.storage)
    /\ last.resp.body = ""

----------------------------------------------------------------------------
(* C25: create does not run the reactive expiry check *)

\* the secret stored when call c arrived was past its deadline
StaleSecret(c) ==
    /\ Active(c.pre.storage)
    /\ c.executedAt >= (c.pre.storage["created_at"] + 600) * 1000

\* C25 as stated: a create on an identifier whose stored secret is past its
\* deadline but not yet wiped returns AlreadyExists, stores nothing and leaves
\* the stale state and wake-up unchanged.
C25_Original ==
    (last.op = "create" /\ Returned(last) /\ StaleSecret(last))
        => AlreadyExists(last) /\ Unchanged(last)

\* C25 amended: a create on an identifier whose stored secret is past its
\* deadline but not yet wiped stores nothing and leaves the stale state and
\* wake-up unchanged; it returns AlreadyExists when its timestamp lies within
\* [now - 300, now + 300] and InvalidTimestamp otherwise.
C25_NoExpiryCheck ==
    (last.op = "create" /\ StaleSecret(last))
        => /\ Unchanged(last)
           /\ Returned(last) =>
                IF InSkewWindow(last)
                THEN AlreadyExists(last)
                ELSE InvalidTimestampAnswer(last)

\* a create with a valid timestamp and another payload reached a secret past
\* its deadline whose wake-up had not fired: it was refused and the stale
\* secret and its wake-up stayed
C25_Witness ==
    /\ AlreadyExists(last)
    /\ StaleSecret(last)
    /\ last.pre.alarm # {}
    /\ last.payload # last.pre.storage["payload"]
    /\ Unchanged(last)
    /\ Active(storage[last.id])

----------------------------------------------------------------------------
(* C26: the timestamp check comes before the replay guard *)

\* C26: a create with a timestamp outside [now - 300, now + 300] on an Active
\* identifier returns InvalidTimestamp, not AlreadyExists, and leaves the state
\* unchanged.
C26_TimestampFirst ==
    (/\ last.op = "create" /\ Active(last.pre.storage)
     /\ \/ last.timestamp < (last.executedAt \div 1000) - 300
        \/ last.timestamp > (last.executedAt \div 1000) + 300)
        => /\ InvalidTimestampAnswer(last)
           /\ ~AlreadyExists(last)
           /\ last.resp.error = "Invalid timestamp"
           /\ Unchanged(last)

\* a create one second outside the window reached an Active identifier
C26_Witness ==
    /\ InvalidTimestampAnswer(last)
    /\ Active(last.pre.storage)
    /\ \/ last.timestamp = (last.executedAt \div 1000) - 301
       \/ last.timestamp = (last.executedAt \div 1000) + 301
    /\ Unchanged(last)

----------------------------------------------------------------------------
(* C27: the timer callback *)

\* the step is the timer callback of id
TimerFired(id) ==
    /\ ncalls' = ncalls
    /\ alarm[id] # {} /\ alarm'[id] = {}

\* C27: the timer callback clears created_at and payload together when the
\* state is Active and changes nothing when the state is already Empty; firing
\* it again on the state it left has no further effect.
C27_TimerClears ==
    [][\A id \in Ids :
          TimerFired(id) =>
             /\ Empty(storage'[id])
             /\ Empty(storage[id]) => storage'[id] = storage[id]
             /\ AlarmHandler(storage'[id]) = storage'[id]
             /\ \A other \in Ids \ {id} : storage'[other] = storage[other]]_vars

\* the timer fired on the secret the latest create stored: nothing is stored
\* any more and no wake-up is armed
C27_Witness ==
    /\ Created(last)
    /\ Active(last.post.storage) /\ last.post.alarm # {}
    /\ Empty(storage[last.id])
    /\ alarm[last.id] = {}
    /\ nowMs >= (last.timestamp + 600) * 1000

----------------------------------------------------------------------------
(* C28: how long after its create a payload can be returned *)

\* the step handles a consume that returns Success, and the request handled
\* before it is the create that returned Created for the secret
ConsumedNext ==
    /\ Created(last)
    /\ ncalls' = ncalls + 1
    /\ ConsumeSuccess(last')

----------------------------------------------------------------------------
(* C29: what a 201 of POST /enstash stands for *)

----------------------------------------------------------------------------
(* C30: the rollback of POST /enstash in the hybrid worker *)

\* the coordinator's create of enstash request i ends in this step
CreateEnds(i) ==
    /\ calls[i].op = "enstash"
    /\ calls[i].pc = "do_create" /\ calls'[i].pc # "do_create"

\* the create that ended in this step did not run to its end: it armed no
\* wake-up for the id
CreateFailed(i) == alarm'[calls[i].id] = {}

----------------------------------------------------------------------------
(* C31: a granted consume and the KV entry *)

\* destash request i, whose consume the coordinator has granted, gets the
\* answer of its KV get in this step
GrantedGet(i) ==
    /\ calls[i].op = "destash"
    /\ calls[i].pc = "kv_get" /\ calls'[i].pc # "kv_get"

\* C31 as stated: in the hybrid version, every GET /destash whose coordinator
\* consume is granted finds the payload in KV and answers 200 with it: a
\* granted consume never ends in 404 with the secret burned, under any timing
\* of the KV entry's own 600 s TTL relative to the coordinator's deadline.
C31_Original ==
    [][\A i \in 1..Len(calls) :
          GrantedGet(i) =>
             /\ calls'[i].pc = "kv_delete"
             /\ calls'[i].data = calls[1].payload
             /\ ~Answered(calls'[i], 404)]_vars

----------------------------------------------------------------------------
(* C32: the coordinator does not interpret the payload *)

\* the kind of an outcome: how the request ended, without the payload
Kind(o) == [op |-> o.op, threw |-> o.threw, status |-> o.resp.status,
            error |-> o.resp.error]

\* what of a run's state does not hold the payload
Shape(run) ==
    [keys |-> DOMAIN storage[run],
     created_at |-> IF Has(storage[run], "created_at")
                    THEN storage[run]["created_at"] ELSE 0,
     alarm |-> alarm[run]]

\* C32: two runs that apply the same sequence of create, consume, delete and
\* timer events at the same times and differ only in the payload values yield
\* the same sequence of outcome kinds and the same Empty/Active states: after
\* every event the two runs store the same keys with the same created_at and
\* the same wake-up, the latest request ended in the same way in both, and an
\* answer differs between the runs only where a consume returns the payload.
C32_PayloadBlind ==
    /\ Shape("run1") = Shape("run2")
    /\ Active(storage["run1"]) <=> Active(storage["run2"])
    /\ Empty(storage["run1"]) <=> Empty(storage["run2"])
    /\ calls # <<>> =>
          /\ Kind(calls["run1"]) = Kind(calls["run2"])
          /\ calls["run1"].resp.body # calls["run2"].resp.body
                => /\ calls["run1"].op = "consume"
                   /\ calls["run1"].resp.status = 200

\* a consume returned Success in both runs, with a different payload in each
C32_Witness ==
    /\ calls # <<>>
    /\ calls["run1"].op = "consume" /\ calls["run2"].op = "consume"
    /\ ~calls["run1"].threw /\ ~calls["run2"].threw
    /\ calls["run1"].resp.status = 200 /\ calls["run2"].resp.status = 200
    /\ calls["run1"].resp.body # calls["run2"].resp.body
    /\ Empty(storage["run1"]) /\ Empty(storage["run2"])

====
